---- MODULE Spec2Model ----
(***************************************************************************)
(* wasm-encoder: the global section builder (core/globals.rs), the section *)
(* framing it implements, and the Module / Component containers that       *)
(* collect encoded sections (lib.rs).                                      *)
(*                                                                         *)
(* Bytes are naturals in 0..255, a Vec<u8> is a sequence of bytes.         *)
(***************************************************************************)
EXTENDS Integers, Sequences, FiniteSets, TLC

\* Bounds of the exploration.
MaxCalls == 3
MaxSections == 2

----------------------------------------------------------------------------
(* Lengths can exceed the 31 bits of a model integer, so a usize / u32     *)
(* length is kept as two limbs: value = hi * 2^16 + lo, 0 <= lo < 2^16.    *)

LIMB == 2 ^ 16

to_wide(n) == [hi |-> n \div LIMB, lo |-> n % LIMB]

wide_add(a, b) ==
    LET s == a.lo + b.lo
    IN [hi |-> a.hi + b.hi + (s \div LIMB), lo |-> s % LIMB]

wide_le(a, b) == a.hi < b.hi \/ (a.hi = b.hi /\ a.lo <= b.lo)

\* x >> 7 and x << 7
wide_shr7(a) == [hi |-> a.hi \div 128, lo |-> ((a.hi % 128) * 512) + (a.lo \div 128)]
wide_shl7(a) == [hi |-> (a.hi * 128) + ((a.lo * 128) \div LIMB), lo |-> (a.lo * 128) % LIMB]

\* u32::MAX = 2^32 - 1
U32_MAX == [hi |-> LIMB - 1, lo |-> LIMB - 1]

----------------------------------------------------------------------------
(* Primitive encoders (crate::encoders, LEB128).                           *)

RECURSIVE leb128_unsigned(_)
leb128_unsigned(w) ==
    IF w.hi = 0 /\ w.lo < 128
    THEN << w.lo >>
    ELSE << (w.lo % 128) + 128 >> \o leb128_unsigned(wide_shr7(w))

\* encoders::u32 on a length held in limbs, and on a small integer.
encoders_u32_wide(w) == leb128_unsigned(w)
encoders_u32(n) == leb128_unsigned(to_wide(n))

\* Signed LEB128: seven bits at a time, stopping once the rest is only
\* sign extension.  \div is floor division, i.e. the arithmetic shift.
RECURSIVE encoders_s64(_)
encoders_s64(x) ==
    LET byte == x % 128
        rest == x \div 128
        done == \/ (rest = 0 /\ byte < 64)
                \/ (rest = -1 /\ byte >= 64)
    IN IF done THEN << byte >> ELSE << byte + 128 >> \o encoders_s64(rest)

encoders_s32(x) == encoders_s64(x)

----------------------------------------------------------------------------
(* Type and instruction encoders.                                          *)

ValType_into_u8(val_type) ==
    CASE val_type = "I32" -> 127
      [] val_type = "I64" -> 126
      [] val_type = "F32" -> 125
      [] val_type = "F64" -> 124

bool_as_u8(b) == IF b THEN 1 ELSE 0

\* Instruction::encode(&self, bytes: &mut Vec<u8>), for the constant
\* expressions a global initializer uses.
Instruction_encode(instr, bytes) ==
    CASE instr.op = "I32Const"  -> bytes \o << 65 >> \o encoders_s32(instr.imm)
      [] instr.op = "I64Const"  -> bytes \o << 66 >> \o encoders_s64(instr.imm)
      [] instr.op = "End"       -> bytes \o << 11 >>

Instruction_End == [op |-> "End", imm |-> 0]

GlobalType_encode_swapped(self, bytes) ==
    Append(Append(bytes, bool_as_u8(self.mutable)), ValType_into_u8(self.val_type))

\* GlobalType::encode: value type byte, then mutability byte.
GlobalType_encode(self, bytes) ==
    Append(Append(bytes, ValType_into_u8(self.val_type)), bool_as_u8(self.mutable))

----------------------------------------------------------------------------
(* GlobalSection { bytes: Vec<u8>, num_added: u32 }                        *)

\* self.num_added += 1 on a u32.  The counts explored stay far below
\* 2^32, where the addition would overflow.
u32_add(a, b) == a + b

GlobalSection_new == [bytes |-> << >>, num_added |-> 0]

GlobalSection_len(self) == self.num_added

GlobalSection_is_empty(self) == self.num_added = 0

GlobalSection_global(self, global_type, init_expr) ==
    LET b1 == GlobalType_encode(global_type, self.bytes)
        b2 == Instruction_encode(init_expr, b1)
        b3 == Instruction_encode(Instruction_End, b2)
    IN [bytes |-> b3, num_added |-> u32_add(self.num_added, 1)]

GlobalSection_raw_no_count(self, data) ==
    [bytes |-> self.bytes \o data, num_added |-> self.num_added]

GlobalSection_raw_count_bytes(self, data) ==
    [bytes |-> self.bytes \o data, num_added |-> u32_add(self.num_added, Len(data))]

GlobalSection_raw(self, data) ==
    [bytes |-> self.bytes \o data, num_added |-> u32_add(self.num_added, 1)]

SectionId_Global == 6

GlobalSection_id(self) == SectionId_Global

u32_try_from_wrapping(x) == [ok |-> TRUE, value |-> [hi |-> x.hi % LIMB, lo |-> x.lo]]

\* u32::try_from(x: usize): Err when x does not fit in 32 bits.
u32_try_from(x) ==
    IF wide_le(x, U32_MAX)
    THEN [ok |-> TRUE, value |-> x]
    ELSE [ok |-> FALSE, value |-> to_wide(0)]

\* The length prefix of the section: u32::try_from(n + self.bytes.len()),
\* n the size of the encoded entry count.  The sum is a usize and cannot
\* overflow: n <= 5 and a Vec holds at most isize::MAX bytes.
section_length(num_added, bytes_len) ==
    LET n == Len(encoders_u32(num_added))
    IN u32_try_from(wide_add(to_wide(n), bytes_len))

encode_prefix_count_first(num_added, bytes_len) ==
    LET length == section_length(num_added, bytes_len)
    IN IF length.ok
       THEN [panic |-> FALSE,
             bytes |-> encoders_u32(num_added) \o encoders_u32_wide(length.value)]
       ELSE [panic |-> TRUE, bytes |-> << >>]

\* What encode puts in front of the payload: the length, then the count.
encode_prefix(num_added, bytes_len) ==
    LET length == section_length(num_added, bytes_len)
    IN IF length.ok
       THEN [panic |-> FALSE,
             bytes |-> encoders_u32_wide(length.value) \o encoders_u32(num_added)]
       ELSE [panic |-> TRUE, bytes |-> << >>]

GlobalSection_encode_no_count(self, sink) ==
    LET length == section_length(self.num_added, to_wide(Len(self.bytes)))
    IN [panic |-> ~length.ok, self |-> self,
        sink  |-> IF length.ok
                  THEN sink \o encoders_u32_wide(length.value) \o self.bytes
                  ELSE sink]

GlobalSection_encode_take(self, sink) ==
    LET p == encode_prefix(self.num_added, to_wide(Len(self.bytes)))
    IN [panic |-> p.panic, self |-> GlobalSection_new,
        sink  |-> IF p.panic THEN sink ELSE sink \o p.bytes \o self.bytes]

GlobalSection_encode_sink_len(self, sink) ==
    LET p == encode_prefix(self.num_added, to_wide(Len(self.bytes) + Len(sink)))
    IN [panic |-> p.panic, self |-> self,
        sink  |-> IF p.panic THEN sink ELSE sink \o p.bytes \o self.bytes]

\* <GlobalSection as Section>::encode(&self, sink): the unwrap panics
\* before sink.extend is reached; otherwise the sink is extended by the
\* length, the entry count and the payload.  self is borrowed shared.
GlobalSection_encode(self, sink) ==
    LET p == encode_prefix(self.num_added, to_wide(Len(self.bytes)))
    IN [panic |-> p.panic, self |-> self,
        sink  |-> IF p.panic THEN sink ELSE sink \o p.bytes \o self.bytes]

----------------------------------------------------------------------------
(* Containers: Module and Component own the bytes emitted so far.          *)

Module_HEADER == << 0, 97, 115, 109, 1, 0, 0, 0 >>
Component_HEADER == << 0, 97, 115, 109, 10, 0, 1, 0 >>

Module_new_component_version == [bytes |-> Component_HEADER]

Module_new == [bytes |-> Module_HEADER]

Module_section_front(self, section) ==
    LET r == GlobalSection_encode(section, << GlobalSection_id(section) >>)
    IN [bytes |-> Module_HEADER \o r.sink
                    \o SubSeq(self.bytes, Len(Module_HEADER) + 1, Len(self.bytes))]

\* Module::section(&mut self, section): the id byte, then the section's
\* encode output, appended to the module's bytes.
Module_section(self, section) ==
    LET r == GlobalSection_encode(section, Append(self.bytes, GlobalSection_id(section)))
    IN [bytes |-> r.sink]

\* Module::finish(self) -> Vec<u8>
Module_finish(self) == self.bytes

Component_new == [bytes |-> Component_HEADER]

\* A component section builder is a record [id, num_added, bytes] that
\* encodes itself by the same framing.
ComponentSection_encode(section, sink) ==
    LET p == encode_prefix(section.num_added, to_wide(Len(section.bytes)))
    IN sink \o p.bytes \o section.bytes

Component_section(self, section) ==
    [bytes |-> ComponentSection_encode(section, Append(self.bytes, section.id))]

Component_finish(self) == self.bytes

----------------------------------------------------------------------------
(* Inputs.                                                                 *)

GlobalTypes ==
    { [val_type |-> "I32", mutable |-> FALSE],
      [val_type |-> "I64", mutable |-> TRUE] }

InitExprs ==
    { [op |-> "I32Const", imm |-> 42],
      [op |-> "I64Const", imm |-> -129] }

\* Pre-encoded bytes handed to raw, with the number of global entries the
\* caller put in them (known to the caller only).
RawInputs ==
    { [entries |-> 0, data |-> << >>],
      [entries |-> 1, data |-> << 125, 1, 35, 128, 1, 11 >>],
      [entries |-> 2, data |-> << 127, 0, 65, 0, 11, 124, 0, 35, 0, 11 >>] }

\* The inputs of the specifications that explore something else than the
\* builder itself.
FewGlobalTypes == { [val_type |-> "I32", mutable |-> FALSE] }
FewInitExprs == InitExprs
FewRawInputs == { r \in RawInputs : r.entries # 1 }

\* Contents of the destination an encode call is given.
SinkInits == { << >>, << 0, 97 >> }

ComponentSections ==
    { [id |-> 1, num_added |-> 0, bytes |-> << >>],
      [id |-> 7, num_added |-> 2, bytes |-> << 3, 4, 5 >>] }

\* Sizes of raw slices in the specification that tracks lengths only:
\* 0, 1, 2^31 and 2^32 - 3.
RawLens ==
    { to_wide(0), to_wide(1),
      [hi |-> 2 ^ 15, lo |-> 0],
      [hi |-> LIMB - 1, lo |-> LIMB - 3] }

----------------------------------------------------------------------------
(* State.                                                                  *)

VARIABLES
    bytes, num_added,       \* the GlobalSection under construction
    calls,                  \* the append calls made on it, in order
    sink,                   \* the destination of the latest encode call
    last,                   \* the latest call on the builder
    twin_bytes, twin_num_added,  \* a second GlobalSection, fed the same calls later
    twin_n,                 \* how many of `calls` the twin has received
    twin_sink,              \* the twin's latest encode call
    module, module_sections, module_out,
    component, component_sections, component_out,
    big_len, big_num_added, \* a GlobalSection known by bytes.len() only
    big_result              \* its latest encode call

builderVars == << bytes, num_added, calls, sink, last >>
twinVars == << twin_bytes, twin_num_added, twin_n, twin_sink >>
moduleVars == << module, module_sections, module_out >>
componentVars == << component, component_sections, component_out >>
bigVars == << big_len, big_num_added, big_result >>
vars == << builderVars, twinVars, moduleVars, componentVars, bigVars >>

self == [bytes |-> bytes, num_added |-> num_added]
twin == [bytes |-> twin_bytes, num_added |-> twin_num_added]

NoOutput == [some |-> FALSE, bytes |-> << >>]

Init ==
    /\ bytes = GlobalSection_new.bytes
    /\ num_added = GlobalSection_new.num_added
    /\ calls = << >>
    /\ sink = << >>
    /\ last = [op |-> "new"]
    /\ twin_bytes = GlobalSection_new.bytes
    /\ twin_num_added = GlobalSection_new.num_added
    /\ twin_n = 0
    /\ twin_sink = [some |-> FALSE, n |-> 0, dst |-> << >>, sink |-> << >>]
    /\ module = Module_new
    /\ module_sections = << >>
    /\ module_out = NoOutput
    /\ component = Component_new
    /\ component_sections = << >>
    /\ component_out = NoOutput
    /\ big_len = to_wide(0)
    /\ big_num_added = 0
    /\ big_result = [called |-> FALSE]

----------------------------------------------------------------------------
(* Calls on the GlobalSection.                                             *)

Global(global_type, init_expr) ==
    /\ Len(calls) < MaxCalls
    /\ LET r == GlobalSection_global(self, global_type, init_expr)
       IN /\ bytes' = r.bytes
          /\ num_added' = r.num_added
    /\ calls' = Append(calls, [op |-> "global", global_type |-> global_type,
                               init_expr |-> init_expr])
    /\ last' = [op |-> "global", pre |-> self, global_type |-> global_type,
                init_expr |-> init_expr]
    /\ UNCHANGED << sink, twinVars, moduleVars, componentVars, bigVars >>

Raw(input) ==
    /\ Len(calls) < MaxCalls
    /\ LET r == GlobalSection_raw(self, input.data)
       IN /\ bytes' = r.bytes
          /\ num_added' = r.num_added
    /\ calls' = Append(calls, [op |-> "raw", data |-> input.data,
                               entries |-> input.entries])
    /\ last' = [op |-> "raw", pre |-> self, data |-> input.data,
                entries |-> input.entries]
    /\ UNCHANGED << sink, twinVars, moduleVars, componentVars, bigVars >>

Encode(dst) ==
    /\ LET r == GlobalSection_encode(self, dst)
       IN /\ sink' = r.sink
          /\ bytes' = r.self.bytes
          /\ num_added' = r.self.num_added
          /\ last' = [op |-> "encode", pre |-> self, dst |-> dst, panic |-> r.panic,
                      prev |-> last.op]
    /\ UNCHANGED << calls, twinVars, moduleVars, componentVars, bigVars >>

CallLen ==
    /\ last' = [op |-> "len", pre |-> self, ret |-> GlobalSection_len(self)]
    /\ UNCHANGED << bytes, num_added, calls, sink,
                    twinVars, moduleVars, componentVars, bigVars >>

CallIsEmpty ==
    /\ last' = [op |-> "is_empty", pre |-> self, ret |-> GlobalSection_is_empty(self)]
    /\ UNCHANGED << bytes, num_added, calls, sink,
                    twinVars, moduleVars, componentVars, bigVars >>

CallId ==
    /\ last' = [op |-> "id", pre |-> self, ret |-> GlobalSection_id(self)]
    /\ UNCHANGED << bytes, num_added, calls, sink,
                    twinVars, moduleVars, componentVars, bigVars >>

Next ==
    \/ \E gt \in GlobalTypes, ie \in InitExprs : Global(gt, ie)
    \/ \E input \in RawInputs : Raw(input)
    \/ \E dst \in SinkInits : Encode(dst)
    \/ CallLen
    \/ CallIsEmpty
    \/ CallId

Spec == Init /\ [][Next]_vars

----------------------------------------------------------------------------
(* A second builder that receives the same calls, later and in another     *)
(* context (specification SpecTwin).                                        *)

ApplyCall(section, c) ==
    IF c.op = "global"
    THEN GlobalSection_global(section, c.global_type, c.init_expr)
    ELSE GlobalSection_raw(section, c.data)

TwinReplay ==
    /\ twin_n < Len(calls)
    /\ LET r == ApplyCall(twin, calls[twin_n + 1])
       IN /\ twin_bytes' = r.bytes
          /\ twin_num_added' = r.num_added
    /\ twin_n' = twin_n + 1
    /\ UNCHANGED << twin_sink, builderVars, moduleVars, componentVars, bigVars >>

TwinEncode(dst) ==
    /\ LET r == GlobalSection_encode(twin, dst)
       IN /\ twin_sink' = [some |-> TRUE, n |-> twin_n, dst |-> dst, sink |-> r.sink]
          /\ twin_bytes' = r.self.bytes
          /\ twin_num_added' = r.self.num_added
    /\ UNCHANGED << twin_n, builderVars, moduleVars, componentVars, bigVars >>

NextTwin ==
    \/ \E gt \in FewGlobalTypes, ie \in FewInitExprs : Global(gt, ie)
    \/ \E input \in FewRawInputs : Raw(input)
    \/ \E dst \in SinkInits : Encode(dst)
    \/ TwinReplay
    \/ \E dst \in SinkInits : TwinEncode(dst)

SpecTwin == Init /\ [][NextTwin]_vars

----------------------------------------------------------------------------
(* Containers (specification SpecContainer).                               *)

ModuleSection ==
    /\ ~module_out.some
    /\ Len(module_sections) < MaxSections
    /\ module' = Module_section(module, self)
    /\ module_sections' = Append(module_sections,
                                 [id |-> SectionId_Global, num_added |-> num_added,
                                  bytes |-> bytes])
    /\ UNCHANGED << module_out, builderVars, twinVars, componentVars, bigVars >>

ModuleFinish ==
    /\ ~module_out.some
    /\ module_out' = [some |-> TRUE, bytes |-> Module_finish(module)]
    /\ UNCHANGED << module, module_sections, builderVars, twinVars,
                    componentVars, bigVars >>

ComponentSection(section) ==
    /\ ~component_out.some
    /\ Len(component_sections) < MaxSections
    /\ component' = Component_section(component, section)
    /\ component_sections' = Append(component_sections, section)
    /\ UNCHANGED << component_out, builderVars, twinVars, moduleVars, bigVars >>

ComponentFinish ==
    /\ ~component_out.some
    /\ component_out' = [some |-> TRUE, bytes |-> Component_finish(component)]
    /\ UNCHANGED << component, component_sections, builderVars, twinVars,
                    moduleVars, bigVars >>

NextContainer ==
    \/ \E gt \in FewGlobalTypes, ie \in FewInitExprs : Global(gt, ie)
    \/ \E input \in FewRawInputs : Raw(input)
    \/ ModuleSection
    \/ ModuleFinish
    \/ \E section \in ComponentSections : ComponentSection(section)
    \/ ComponentFinish

SpecContainer == Init /\ [][NextContainer]_vars

----------------------------------------------------------------------------
(* A builder followed by the length of its payload only, so that payloads  *)
(* of 2^32 bytes and more are reached (specification SpecLen).             *)

BigGlobal(global_type, init_expr) ==
    /\ big_num_added < MaxCalls
    /\ LET r == GlobalSection_global(GlobalSection_new, global_type, init_expr)
       IN /\ big_len' = wide_add(big_len, to_wide(Len(r.bytes)))
          /\ big_num_added' = u32_add(big_num_added, r.num_added)
    /\ UNCHANGED << big_result, builderVars, twinVars, moduleVars, componentVars >>

BigRaw(data_len) ==
    /\ big_num_added < MaxCalls
    /\ big_len' = wide_add(big_len, data_len)
    /\ big_num_added' = u32_add(big_num_added, 1)
    /\ UNCHANGED << big_result, builderVars, twinVars, moduleVars, componentVars >>

BigEncode ==
    /\ LET p == encode_prefix(big_num_added, big_len)
       IN big_result' = [called |-> TRUE, panic |-> p.panic, prefix |-> p.bytes,
                         num_added |-> big_num_added, bytes_len |-> big_len]
    /\ UNCHANGED << big_len, big_num_added, builderVars, twinVars,
                    moduleVars, componentVars >>

NextLen ==
    \/ \E gt \in GlobalTypes, ie \in InitExprs : BigGlobal(gt, ie)
    \/ \E data_len \in RawLens : BigRaw(data_len)
    \/ BigEncode

SpecLen == Init /\ [][NextLen]_vars

----------------------------------------------------------------------------
(* Reading an encoding back.                                               *)

\* The unsigned LEB128 number that starts at seq[i]: its value (in limbs)
\* and the number of bytes it takes.
RECURSIVE leb128_decode_at(_, _)
leb128_decode_at(seq, i) ==
    IF i > Len(seq)
    THEN [ok |-> FALSE, value |-> to_wide(0), size |-> 0]
    ELSE IF seq[i] < 128
         THEN [ok |-> TRUE, value |-> to_wide(seq[i]), size |-> 1]
         ELSE LET r == leb128_decode_at(seq, i + 1)
              IN [ok    |-> r.ok,
                  value |-> wide_add(to_wide(seq[i] - 128), wide_shl7(r.value)),
                  size  |-> r.size + 1]

IsPrefix(p, seq) == Len(p) <= Len(seq) /\ SubSeq(seq, 1, Len(p)) = p

\* What a call wrote to a destination that held dst before it.
Written(dst, after) == SubSeq(after, Len(dst) + 1, Len(after))

NoRawCalls == \A i \in 1..Len(calls) : calls[i].op = "global"

----------------------------------------------------------------------------
(* Properties of the builder (specification Spec).                         *)

\* C1: with global() calls only, what encode wrote starts with a length
\* field equal to (size of the encoded entry count + size of the payload
\* buffer), and the bytes after the length field start with a VarInt equal
\* to the number of append calls made.
C1_FrameRecoversCount ==
    (last.op = "encode" /\ NoRawCalls) =>
        LET out     == Written(last.dst, sink)
            frame   == leb128_decode_at(out, 1)
            payload == SubSeq(out, frame.size + 1, Len(out))
            count   == leb128_decode_at(payload, 1)
        IN /\ ~last.panic
           /\ IsPrefix(last.dst, sink)
           /\ frame.ok /\ count.ok
           /\ frame.value = to_wide(count.size + Len(bytes))
           /\ frame.value = to_wide(Len(payload))
           /\ count.value = to_wide(Len(calls))

C1_Witness ==
    /\ last.op = "encode" /\ NoRawCalls /\ Len(calls) >= 2
    /\ last.dst # << >>

\* C2 as stated: encode itself writes the id byte, then the length, the
\* entry count and the payload.
C2_EncodeWritesIdFirst ==
    last.op = "encode" =>
        sink = last.dst \o << SectionId_Global >>
                 \o encoders_u32(Len(encoders_u32(num_added)) + Len(bytes))
                 \o encoders_u32(num_added) \o bytes

\* C2, amended: encode writes the length of (entry count + payload), then
\* the entry count, then the payload, after what the destination held, and
\* nothing else; the id byte is not written by encode.
C2_EncodeWritesLengthCountPayload ==
    last.op = "encode" =>
        /\ ~last.panic
        /\ sink = last.dst
                    \o encoders_u32(Len(encoders_u32(num_added)) + Len(bytes))
                    \o encoders_u32(num_added) \o bytes

C2_Witness ==
    /\ last.op = "encode" /\ Len(calls) >= 2 /\ bytes # << >>
    /\ last.dst # << >>

\* C3: after n append calls (global or raw, in any order) len() is n and
\* is_empty() is (n = 0).
C3_LenCountsAppends ==
    /\ num_added = Len(calls)
    /\ last.op = "len" => last.ret = Len(calls)
    /\ last.op = "is_empty" => last.ret = (Len(calls) = 0)

C3_Witness ==
    /\ last.op = "len"
    /\ last.ret >= 2
    /\ \E i, j \in 1..Len(calls) : calls[i].op = "global" /\ calls[j].op = "raw"

\* C4 as stated: raw appends the bytes and adds to the entry count the
\* number of entries the caller accounts for.
C4_RawCountsCallerEntries ==
    last.op = "raw" =>
        /\ bytes = last.pre.bytes \o last.data
        /\ num_added = last.pre.num_added + last.entries

\* C4, amended: raw appends the bytes verbatim and adds exactly one to the
\* entry count, whatever the bytes hold.
C4_RawCountsOne ==
    last.op = "raw" =>
        /\ bytes = last.pre.bytes \o last.data
        /\ num_added = last.pre.num_added + 1

C4_Witness ==
    /\ last.op = "raw" /\ last.entries = 2
    /\ last.pre.bytes # << >>

\* C9: global(global_type, init_expr) keeps the bytes appended before and
\* adds the value type tag, the mutability byte (0 or 1), the initializer
\* instruction and the End instruction, in that order; the entry count
\* grows by one.
C9_GlobalAppendsEntry ==
    last.op = "global" =>
        /\ bytes = last.pre.bytes
                     \o << ValType_into_u8(last.global_type.val_type),
                           IF last.global_type.mutable THEN 1 ELSE 0 >>
                     \o Instruction_encode(last.init_expr, << >>)
                     \o Instruction_encode(Instruction_End, << >>)
        /\ num_added = last.pre.num_added + 1

C9_Witness ==
    /\ last.op = "global" /\ last.pre.bytes # << >>
    /\ last.global_type.mutable

\* C10: encode, len, is_empty and id leave the payload and the entry count
\* as they were; an encode right after an encode writes the same bytes;
\* and every encode writes the count and the payload the builder holds at
\* that time, appends made after an earlier encode included.
C10_ObserversKeepBuilder ==
    [][ /\ last'.op \in {"encode", "len", "is_empty", "id"}
            => (bytes' = bytes /\ num_added' = num_added)
        /\ (last.op = "encode" /\ last'.op = "encode")
            => Written(last'.dst, sink') = Written(last.dst, sink)
        /\ last'.op = "encode"
            => LET out   == Written(last'.dst, sink')
                   frame == leb128_decode_at(out, 1)
                   body  == SubSeq(out, frame.size + 1, Len(out))
                   count == leb128_decode_at(body, 1)
               IN /\ count.value = to_wide(num_added')
                  /\ SubSeq(body, count.size + 1, Len(body)) = bytes'
      ]_vars

C10_Witness ==
    /\ last.op = "encode" /\ last.prev = "encode"
    /\ num_added >= 1

----------------------------------------------------------------------------
(* Properties of the encoded length (specification SpecLen).               *)

\* The number of bytes of the VarInt of a count.
VarIntSize(n) ==
    IF n < 128 THEN 1
    ELSE IF n < 128 * 128 THEN 2
    ELSE IF n < 128 * 128 * 128 THEN 3
    ELSE IF n < 128 * 128 * 128 * 128 THEN 4
    ELSE 5

\* C5: when (size of the encoded entry count + size of the payload) is
\* above 2^32 - 1, encode panics and writes no length; otherwise it
\* succeeds and the length it writes decodes to exactly that sum.
C5_LengthExactOrPanic ==
    big_result.called =>
        LET total == wide_add(to_wide(VarIntSize(big_result.num_added)),
                              big_result.bytes_len)
            frame == leb128_decode_at(big_result.prefix, 1)
        IN IF total.hi >= LIMB
           THEN big_result.panic /\ big_result.prefix = << >>
           ELSE /\ ~big_result.panic
                /\ frame.ok
                /\ frame.value = total

C5_Witness ==
    /\ big_result.called /\ big_result.panic
    /\ big_result.bytes_len.hi >= LIMB - 1

----------------------------------------------------------------------------
(* Properties of the containers (specification SpecContainer).             *)

\* The sections of a byte sequence of frames [id][length][count][payload].
RECURSIVE parse_sections(_)
parse_sections(seq) ==
    IF seq = << >>
    THEN << >>
    ELSE LET frame == leb128_decode_at(seq, 2)
             n     == frame.value.lo
             start == 1 + frame.size
             body  == SubSeq(seq, start + 1, start + n)
             count == leb128_decode_at(body, 1)
         IN IF ~frame.ok \/ frame.value.hi # 0 \/ start + n > Len(seq) \/ ~count.ok
            THEN << [id |-> -1, num_added |-> -1, bytes |-> << >>] >>
            ELSE << [id |-> seq[1], num_added |-> count.value.lo,
                     bytes |-> SubSeq(body, count.size + 1, Len(body))] >>
                     \o parse_sections(SubSeq(seq, start + n + 1, Len(seq)))

\* C6: finish returns the 8-byte header followed by one frame per section
\* added, in the order of the section calls, each with the id, the count
\* and the payload the section had when it was added.
C6_FinishKeepsOrder ==
    /\ module_out.some =>
         /\ IsPrefix(Module_HEADER, module_out.bytes)
         /\ parse_sections(Written(Module_HEADER, module_out.bytes)) = module_sections
    /\ component_out.some =>
         /\ IsPrefix(Component_HEADER, component_out.bytes)
         /\ parse_sections(Written(Component_HEADER, component_out.bytes))
              = component_sections

C6_Witness ==
    /\ module_out.some /\ Len(module_sections) >= 2
    /\ module_sections[1].num_added < module_sections[2].num_added
    /\ component_out.some /\ Len(component_sections) >= 2
    /\ component_sections[1] = component_sections[2]

\* C7: a container no section was added to finishes as its 8-byte header.
C7_EmptyContainerIsHeader ==
    /\ (module_out.some /\ module_sections = << >>)
         => module_out.bytes = << 0, 97, 115, 109, 1, 0, 0, 0 >>
    /\ (component_out.some /\ component_sections = << >>)
         => component_out.bytes = << 0, 97, 115, 109, 10, 0, 1, 0 >>

C7_Witness ==
    /\ module_out.some /\ module_sections = << >>
    /\ component_out.some /\ component_sections = << >>

----------------------------------------------------------------------------
(* Determinism (specification SpecTwin).                                   *)

\* C8: two builders that received the same sequence of calls write the
\* same bytes when encoded, whatever their destinations held and whatever
\* was done in between.
C8_SameCallsSameBytes ==
    (last.op = "encode" /\ twin_sink.some /\ twin_sink.n = Len(calls)) =>
        Written(last.dst, sink) = Written(twin_sink.dst, twin_sink.sink)

C8_Witness ==
    /\ last.op = "encode" /\ twin_sink.some /\ twin_sink.n = Len(calls)
    /\ Len(calls) >= 2
    /\ last.dst # twin_sink.dst

====
